---- MODULE Spec2Model ----
(***************************************************************************)
(* Model of src/main.py: a Telegram bot whose /start command is guarded    *)
(* by a membership gate (start_with_gate), with a recheck button           *)
(* (on_recheck).                                                           *)
(*                                                                         *)
(* Strings the code inspects character by character (environment values,   *)
(* message texts, URLs) are sequences of one-character strings or of       *)
(* literal fragments, so that strip / lstrip / isdigit / startswith and    *)
(* the f-string concatenations are computed as the code computes them.     *)
(*                                                                         *)
(* A handler is cut into steps at its awaits (q.answer, get_chat_member,   *)
(* send_message / reply_text): each step runs from one await to the next.  *)
(* The updates of one user are handled one after the other; handlers of    *)
(* different users may interleave at their awaits. Every handler           *)
(* invocation records what it did (trace, lookups, sent, calls, logged),   *)
(* and the record is replaced when the user's next update is dispatched.   *)
(* sent holds the messages handed to bot.send_message / reply_text; the    *)
(* transport may still fail to deliver them (send_raised).                 *)
(*                                                                         *)
(* Two pieces of history are not program state and are recorded only in    *)
(* the specifications that start them: dropped (SpecBacklog) counts the    *)
(* pending updates run_polling discarded, and task[u].before               *)
(* (SpecHistory) is how the user's previous interaction ended.             *)
(***************************************************************************)
EXTENDS Integers, Sequences, FiniteSets, TLC

VARIABLES
    env,                    \* os.environ as seen by os.getenv
    phase,                  \* "import" | "loaded" | "polling" | "crashed"
    BOT_TOKEN,              \* module globals, main.py:29-40
    REQUIRED_CHAT_RAW,
    JOIN_URL,
    SILENT_FOR_NOT_JOINED,
    REQUIRED_CHAT,
    handlers,               \* handlers registered on the Application
    flask_started,          \* health listener thread started
    queue,                  \* updates waiting at the Bot API server
    task,                   \* per user: the handler invocation in progress or last finished
    dropped                 \* history: number of pending updates discarded by run_polling

vars == <<env, phase, BOT_TOKEN, REQUIRED_CHAT_RAW, JOIN_URL,
          SILENT_FOR_NOT_JOINED, REQUIRED_CHAT, handlers, flask_started,
          queue, task, dropped>>

config == <<BOT_TOKEN, REQUIRED_CHAT_RAW, JOIN_URL, SILENT_FOR_NOT_JOINED, REQUIRED_CHAT>>

(***************************************************************************)
(* Bounds                                                                  *)
(***************************************************************************)
MaxQueue == 1

(***************************************************************************)
(* Python string helpers                                                   *)
(***************************************************************************)
Unset == <<"<unset>">>       \* the variable is absent from the environment

Digits == {"0", "1", "5"}

DigitVal(c) == CASE c = "0" -> 0 [] c = "1" -> 1 [] c = "5" -> 5 [] OTHER -> 0

\* os.getenv(name, default)
getenv(name, default) == IF env[name] = Unset THEN default ELSE env[name]

RECURSIVE lstrip(_, _)
\* str.lstrip(chars) for a one-character set
lstrip(s, c) == IF s # <<>> /\ Head(s) = c THEN lstrip(Tail(s), c) ELSE s

RECURSIVE rstrip(_, _)
rstrip(s, c) ==
    IF s # <<>> /\ s[Len(s)] = c THEN rstrip(SubSeq(s, 1, Len(s) - 1), c) ELSE s

\* str.strip(): whitespace is the single character " " here
strip(s) == rstrip(lstrip(s, " "), " ")

LowerChar(c) ==
    CASE c = "T" -> "t" [] c = "R" -> "r" [] c = "U" -> "u" [] c = "E" -> "e"
      [] OTHER -> c

\* str.lower()
lower(s) == [i \in 1..Len(s) |-> LowerChar(s[i])]

\* str.isdigit(): non-empty and every character a digit
isdigit(s) == s # <<>> /\ \A i \in 1..Len(s) : s[i] \in Digits

\* str.startswith(prefix) for a one-character prefix
startswith(s, c) == s # <<>> /\ Head(s) = c

RECURSIVE DigitsValue(_)
DigitsValue(s) ==
    IF s = <<>> THEN 0 ELSE 10 * DigitsValue(SubSeq(s, 1, Len(s) - 1)) + DigitVal(s[Len(s)])

\* int(s): at most one leading sign, then digits; anything else is ValueError
int(s) ==
    IF isdigit(s) THEN [ok |-> TRUE, val |-> DigitsValue(s)]
    ELSE IF startswith(s, "-") /\ isdigit(Tail(s))
         THEN [ok |-> TRUE, val |-> 0 - DigitsValue(Tail(s))]
         ELSE [ok |-> FALSE, val |-> 0]

\* A Python value that is an int or a str (REQUIRED_CHAT, main.py:40)
IntObj(n) == [type |-> "int", int |-> n, str |-> <<>>]

StrObj(s) == [type |-> "str", int |-> 0, str |-> s]

\* isinstance(x, str)
isinstance_str(x) == x.type = "str"

(***************************************************************************)
(* Environments the process may be started with                           *)
(***************************************************************************)
TokenValues == { Unset, <<" ">>, <<"t", "k">> }

ChatValues == { Unset, <<" ">>, <<"@", "c", "h">>, <<"-", "1", "0", "0", " ">>,
                <<"5">>, <<"-">>, <<"-", "-", "5">> }

JoinUrlValues == { Unset, <<"h", "t", "t", "p", "s", ":", "/", "/", "j">> }

SilentValues == { Unset, <<"T", "R", "U", "E", " ">>, <<"1">> }

\* The environments explored: every value of each variable occurs, and so does
\* every combination the join button depends on (JOIN_URL set or not, with
\* REQUIRED_CHAT an @handle, a number, another string).
Environments ==
    LET ok == [BOT_TOKEN |-> <<"t", "k">>, REQUIRED_CHAT |-> <<"@", "c", "h">>,
               JOIN_URL |-> Unset, SILENT_FOR_NOT_JOINED |-> Unset]
        url == <<"h", "t", "t", "p", "s", ":", "/", "/", "j">>
    IN    { [ok EXCEPT !.BOT_TOKEN = v] : v \in TokenValues }
     \cup { [ok EXCEPT !.REQUIRED_CHAT = v] :
                v \in { Unset, <<" ">>, <<"-", "1", "0", "0", " ">>, <<"-", "-", "5">> } }
     \cup { [ok EXCEPT !.JOIN_URL = url],
            [ok EXCEPT !.REQUIRED_CHAT = <<"5">>, !.JOIN_URL = url],
            [ok EXCEPT !.REQUIRED_CHAT = <<"-">>, !.SILENT_FOR_NOT_JOINED = <<"1">>],
            [ok EXCEPT !.SILENT_FOR_NOT_JOINED = <<"T", "R", "U", "E", " ">>] }

(***************************************************************************)
(* Constants of the program                                                *)
(***************************************************************************)
BTN_RECHECK == "recheck_join"

\* telegram.constants.ChatMemberStatus, by wire value
MEMBER == "member"
ADMINISTRATOR == "administrator"
OWNER == "creator"
RESTRICTED == "restricted"
LEFT == "left"
BANNED == "kicked"

Statuses == { MEMBER, ADMINISTRATOR, OWNER, RESTRICTED, LEFT, BANNED, "unknown_future_status" }

\* Exceptions: cls is the class name, telegram says whether it derives from
\* telegram.error.TelegramError
NotMember == [cls |-> "Forbidden", telegram |-> TRUE,
              msg |-> <<"bot is not a member of the channel chat">>]

ChatNotFound == [cls |-> "BadRequest", telegram |-> TRUE, msg |-> <<"Chat not found">>]

Blocked == [cls |-> "Forbidden", telegram |-> TRUE, msg |-> <<"bot was blocked by the user">>]

QueryTooOld == [cls |-> "BadRequest", telegram |-> TRUE, msg |-> <<"Query is too old">>]

RuntimeError == [cls |-> "RuntimeError", telegram |-> FALSE, msg |-> <<"unexpected">>]

NoError == [cls |-> "", telegram |-> FALSE, msg |-> <<>>]

LookupErrors == { NotMember, ChatNotFound, RuntimeError }

SendErrors == { Blocked }

AnswerErrors == { QueryTooOld }

Users == {1, 2}

\* user 1 talks to the bot in the private chat (chat id = user id), user 2 in a group
ChatOf(u) == IF u = 1 THEN 1 ELSE 0 - 100

NoUpdate == [kind |-> "", data |-> "", uid |-> 0, chat |-> 0, has_message |-> FALSE,
             pending |-> FALSE]

\* Updates a user can produce: the /start command, a press on the recheck
\* button (whose message may no longer be available), a plain text message
UpdatesOf(u) ==
    { [kind |-> "command", data |-> "/start", uid |-> u, chat |-> ChatOf(u), has_message |-> TRUE,
       pending |-> FALSE],
      [kind |-> "callback_query", data |-> BTN_RECHECK, uid |-> u, chat |-> ChatOf(u), has_message |-> TRUE,
       pending |-> FALSE],
      [kind |-> "callback_query", data |-> BTN_RECHECK, uid |-> u, chat |-> 0, has_message |-> FALSE,
       pending |-> FALSE],
      [kind |-> "text", data |-> "hello", uid |-> u, chat |-> ChatOf(u), has_message |-> TRUE,
       pending |-> FALSE] }

NoContext == [bot |-> "", user |-> 0]

\* CallbackContext built by the Application for an update
from_update(update) == [bot |-> "bot", user |-> update.uid]

IdleTask ==
    [pc |-> "idle", handler |-> "", update |-> NoUpdate, context |-> NoContext,
     member |-> "", ok |-> FALSE, e |-> NoError, trace |-> <<>>, lookups |-> <<>>, sent |-> <<>>,
     calls |-> <<>>, logged |-> <<>>, before |-> "untracked"]

Untracked == 0 - 1

(***************************************************************************)
(* Initial state: the interpreter is about to import main.py               *)
(***************************************************************************)
Init ==
    /\ env \in Environments
    /\ phase = "import"
    /\ BOT_TOKEN = <<>>
    /\ REQUIRED_CHAT_RAW = <<>>
    /\ JOIN_URL = <<>>
    /\ SILENT_FOR_NOT_JOINED = FALSE
    /\ REQUIRED_CHAT = StrObj(<<>>)
    /\ handlers = {}
    /\ flask_started = FALSE
    /\ queue = <<>>
    /\ task = [u \in Users |-> IdleTask]
    /\ dropped = Untracked

\* module-level loading that tests BOT_TOKEN only (no test of lines 36-37)
LoadConfig_only_token ==
    /\ phase = "import"
    /\ LET token  == strip(getenv("BOT_TOKEN", <<>>))
           raw    == strip(getenv("REQUIRED_CHAT", <<>>))
           url    == strip(getenv("JOIN_URL", <<>>))
           silent == lower(strip(getenv("SILENT_FOR_NOT_JOINED", <<"f", "a", "l", "s", "e">>)))
                        = <<"t", "r", "u", "e">>
           numeric == isdigit(lstrip(raw, "-"))
       IN /\ BOT_TOKEN' = token
          /\ REQUIRED_CHAT_RAW' = raw
          /\ JOIN_URL' = url
          /\ SILENT_FOR_NOT_JOINED' = silent
          /\ IF token = <<>>
             THEN /\ phase' = "crashed"
                  /\ UNCHANGED REQUIRED_CHAT
             ELSE IF numeric /\ ~int(raw).ok
             THEN /\ phase' = "crashed"
                  /\ UNCHANGED REQUIRED_CHAT
             ELSE /\ phase' = "loaded"
                  /\ REQUIRED_CHAT' = IF numeric THEN IntObj(int(raw).val) ELSE StrObj(raw)
    /\ UNCHANGED <<env, dropped, handlers, flask_started, queue, task>>

(***************************************************************************)
(* main.py:29-40, module-level configuration loading                       *)
(***************************************************************************)
LoadConfig ==
    /\ phase = "import"
    /\ LET token  == strip(getenv("BOT_TOKEN", <<>>))
           raw    == strip(getenv("REQUIRED_CHAT", <<>>))
           url    == strip(getenv("JOIN_URL", <<>>))
           silent == lower(strip(getenv("SILENT_FOR_NOT_JOINED", <<"f", "a", "l", "s", "e">>)))
                        = <<"t", "r", "u", "e">>
           numeric == isdigit(lstrip(raw, "-"))
       IN /\ BOT_TOKEN' = token
          /\ REQUIRED_CHAT_RAW' = raw
          /\ JOIN_URL' = url
          /\ SILENT_FOR_NOT_JOINED' = silent
          /\ IF token = <<>> \/ raw = <<>>
             THEN \* RuntimeError, lines 34-37
                  /\ phase' = "crashed"
                  /\ UNCHANGED REQUIRED_CHAT
             ELSE IF numeric /\ ~int(raw).ok
             THEN \* ValueError out of int(), line 40
                  /\ phase' = "crashed"
                  /\ UNCHANGED REQUIRED_CHAT
             ELSE /\ phase' = "loaded"
                  /\ REQUIRED_CHAT' = IF numeric THEN IntObj(int(raw).val) ELSE StrObj(raw)
    /\ UNCHANGED <<env, dropped, handlers, flask_started, queue, task>>

\* main() with run_polling called without drop_pending_updates=True
main_keeps_pending ==
    /\ phase = "loaded"
    /\ handlers' = { "start_with_gate", "on_recheck", "handle_any_text", "error_handler" }
    /\ flask_started' = TRUE
    /\ phase' = "polling"
    /\ UNCHANGED <<env, dropped, config, task, queue>>

(***************************************************************************)
(* main.py:174-193, main(): register the handlers, start the health        *)
(* listener, start polling with drop_pending_updates=True                  *)
(***************************************************************************)
main ==
    /\ phase = "loaded"
    /\ handlers' = { "start_with_gate", "on_recheck", "handle_any_text", "error_handler" }
    /\ flask_started' = TRUE
    /\ queue' = <<>>
    /\ dropped' = IF dropped = Untracked THEN Untracked ELSE dropped + Len(queue)
    /\ phase' = "polling"
    /\ UNCHANGED <<env, config, task>>

(***************************************************************************)
(* A user sends an update; it waits at the Bot API server until polled     *)
(***************************************************************************)
UserSends(u) ==
    /\ Len(queue) < MaxQueue
    /\ \E update \in UpdatesOf(u) :
          \* pending: the update reached the server before polling started
          queue' = Append(queue, [update EXCEPT !.pending = (phase # "polling")])
    /\ UNCHANGED <<env, dropped, phase, config, handlers, flask_started, task>>

(***************************************************************************)
(* Pure helpers of main.py                                                 *)
(***************************************************************************)
\* build_join_url with the precedence swapped: the @handle link wins over JOIN_URL
build_join_url_handle_first ==
    IF isinstance_str(REQUIRED_CHAT) /\ startswith(REQUIRED_CHAT.str, "@")
    THEN <<"https://t.me/">> \o Tail(REQUIRED_CHAT.str)
    ELSE JOIN_URL

\* main.py:45-51
build_join_url ==
    IF JOIN_URL # <<>> THEN JOIN_URL
    ELSE IF isinstance_str(REQUIRED_CHAT) /\ startswith(REQUIRED_CHAT.str, "@")
         THEN <<"https://t.me/">> \o Tail(REQUIRED_CHAT.str)
         ELSE <<>>

\* is_joined without RESTRICTED in the inclusion set
is_joined_no_restricted(status) == status \in { MEMBER, ADMINISTRATOR, OWNER }

\* main.py:54-61
is_joined(status) == status \in { MEMBER, ADMINISTRATOR, OWNER, RESTRICTED }

\* main.py:64-67, applied to the status of the ChatMember that get_chat_member returned
check_membership(status) == is_joined(status)


NoUrl == <<>>

\* InlineKeyboardButton(text, url=...) / InlineKeyboardButton(text, callback_data=...)
InlineKeyboardButton(text, url, callback_data) ==
    [text |-> text, url |-> url, callback_data |-> callback_data]

JOIN_BUTTON_TEXT == "go join the channel/group"

RECHECK_BUTTON_TEXT == "I have joined, recheck me"

\* main.py:81
PROMPT_TEXT ==
    <<"You must join the required channel/group before using this bot.\n",
      "After joining press [I have joined, recheck me].">>

\* main.py:93
PASSED_TEXT == <<"Check passed: entering the business logic (placeholder)">>

\* main.py:147
CONFIRMED_TEXT == <<"Confirmed that you have joined! Please send /start to continue.">>

\* main.py:108-112
gate_diagnostic(e) ==
    <<"Cannot verify membership (REQUIRED_CHAT may be wrong, or the bot is not in the chat / lacks permission).\n",
      "REQUIRED_CHAT=">> \o REQUIRED_CHAT_RAW \o <<"\n", "error: ", e.cls, ": ">> \o e.msg

\* main.py:139
recheck_diagnostic(e) == <<"Recheck failed: ", e.cls, ": ">> \o e.msg

Message(via, chat_id, text, reply_markup) ==
    [via |-> via, chat_id |-> chat_id, text |-> text, reply_markup |-> reply_markup]

\* send_join_prompt without the early return of line 72-73
send_join_prompt_ignores_silent(chat_id, extra_text) ==
    LET join_url == build_join_url
        buttons  == (IF join_url # <<>>
                     THEN << <<InlineKeyboardButton(JOIN_BUTTON_TEXT, join_url, "")>> >>
                     ELSE <<>>)
                    \o << <<InlineKeyboardButton(RECHECK_BUTTON_TEXT, NoUrl, BTN_RECHECK)>> >>
        text     == IF extra_text # <<>>
                    THEN extra_text \o <<"\n\n">> \o PROMPT_TEXT
                    ELSE PROMPT_TEXT
    IN  << Message("send_message", chat_id, text, buttons) >>

\* send_join_prompt that appends the recheck button only when there is no join button
send_join_prompt_no_recheck(chat_id, extra_text) ==
    IF SILENT_FOR_NOT_JOINED THEN <<>>
    ELSE LET join_url == build_join_url
             buttons  == IF join_url # <<>>
                         THEN << <<InlineKeyboardButton(JOIN_BUTTON_TEXT, join_url, "")>> >>
                         ELSE << <<InlineKeyboardButton(RECHECK_BUTTON_TEXT, NoUrl, BTN_RECHECK)>> >>
             text     == IF extra_text # <<>>
                         THEN extra_text \o <<"\n\n">> \o PROMPT_TEXT
                         ELSE PROMPT_TEXT
         IN  << Message("send_message", chat_id, text, buttons) >>

\* send_join_prompt whose extra_text replaces the standard body
send_join_prompt_replaces_text(chat_id, extra_text) ==
    IF SILENT_FOR_NOT_JOINED THEN <<>>
    ELSE LET join_url == build_join_url
             buttons  == (IF join_url # <<>>
                          THEN << <<InlineKeyboardButton(JOIN_BUTTON_TEXT, join_url, "")>> >>
                          ELSE <<>>)
                         \o << <<InlineKeyboardButton(RECHECK_BUTTON_TEXT, NoUrl, BTN_RECHECK)>> >>
             text     == IF extra_text # <<>> THEN extra_text ELSE PROMPT_TEXT
         IN  << Message("send_message", chat_id, text, buttons) >>

\* main.py:70-85: the messages handed to bot.send_message (none when silent)
send_join_prompt(chat_id, extra_text) ==
    IF SILENT_FOR_NOT_JOINED THEN <<>>
    ELSE LET join_url == build_join_url
             buttons  == (IF join_url # <<>>
                          THEN << <<InlineKeyboardButton(JOIN_BUTTON_TEXT, join_url, "")>> >>
                          ELSE <<>>)
                         \o << <<InlineKeyboardButton(RECHECK_BUTTON_TEXT, NoUrl, BTN_RECHECK)>> >>
             text     == IF extra_text # <<>>
                         THEN extra_text \o <<"\n\n">> \o PROMPT_TEXT
                         ELSE PROMPT_TEXT
         IN  << Message("send_message", chat_id, text, buttons) >>

\* main.py:89-93: business_start(update, context) up to its await of reply_text
business_start(t, update, context) ==
    [t EXCEPT !.calls = Append(@, [update |-> update, context |-> context]),
              !.trace = @ \o <<"business_start", "reply_text">>,
              !.sent  = Append(@, Message("reply_text", update.chat, PASSED_TEXT, <<>>)),
              !.pc    = "send"]

\* main.py:156-157: an exception that leaves a handler is logged by error_handler
error_handler(t, e) ==
    [t EXCEPT !.pc = "done", !.logged = Append(@, e)]

\* A handler hands msgs (zero or one message) to bot.send_message and awaits it
Send(t, msgs) ==
    IF msgs = <<>>
    THEN [t EXCEPT !.pc = "done"]
    ELSE [t EXCEPT !.pc = "send", !.sent = @ \o msgs, !.trace = Append(@, "send_message")]

\* bot.get_chat_member(chat_id=REQUIRED_CHAT, user_id=uid) is called and awaited
CallLookup(t, uid) ==
    [t EXCEPT !.pc = "lookup",
              !.trace = Append(@, "get_chat_member"),
              !.lookups = Append(@, [chat_id |-> REQUIRED_CHAT, user_id |-> uid])]

\* History: how the invocation recorded in t ended
Ended(t) ==
    IF t.before = "untracked" THEN "untracked"
    ELSE IF t.pc = "idle" THEN "none"
    ELSE IF t.logged # <<>> THEN "failed"
    ELSE IF t.calls # <<>> THEN "passed"
    ELSE IF t.sent = <<>> THEN "quiet"
    ELSE IF t.sent[1].text = CONFIRMED_TEXT THEN "confirmed"
    ELSE IF t.sent[1].reply_markup # <<>> THEN "prompted"
    ELSE "diagnosed"

\* The Application takes the next update when its user's previous handler is over
Dispatchable(u, kind, handler) ==
    /\ phase = "polling"
    /\ queue # <<>>
    /\ Head(queue).uid = u
    /\ Head(queue).kind = kind
    /\ handler \in handlers
    /\ task[u].pc \in {"idle", "done"}

NewTask(handler, update) ==
    [IdleTask EXCEPT !.handler = handler, !.update = update, !.context = from_update(update),
                     !.before = Ended(task[update.uid])]

(***************************************************************************)
(* main.py:97-120, start_with_gate                                         *)
(***************************************************************************)
\* lines 101-105: up to the await of get_chat_member
start_with_gate(u) ==
    /\ Dispatchable(u, "command", "start_with_gate")
    /\ Head(queue).data = "/start"
    /\ LET update == Head(queue)
           uid    == update.uid
       IN  task' = [task EXCEPT ![u] = CallLookup(NewTask("start_with_gate", update), uid)]
    /\ queue' = Tail(queue)
    /\ UNCHANGED <<env, dropped, phase, config, handlers, flask_started>>

\* start_with_gate that lets a user through on the strength of an earlier pass or confirmation
start_with_gate_member_cached(u, status) ==
    /\ task[u].pc = "lookup"
    /\ task[u].handler = "start_with_gate"
    /\ LET ok      == check_membership(status) \/ task[u].before \in {"passed", "confirmed"}
           t       == [task[u] EXCEPT !.member = status, !.ok = ok]
           chat_id == t.update.chat
       IN  task' = [task EXCEPT ![u] =
                       IF ~ok THEN Send(t, send_join_prompt(chat_id, <<>>))
                       ELSE business_start(t, t.update, t.context)]
    /\ UNCHANGED <<env, dropped, phase, config, handlers, flask_started, queue>>

\* start_with_gate that answers in the chat of whichever handler started last (a shared global)
start_with_gate_member_shared_chat(u, status) ==
    /\ task[u].pc = "lookup"
    /\ task[u].handler = "start_with_gate"
    /\ LET ok      == check_membership(status)
           t       == [task[u] EXCEPT !.member = status, !.ok = ok]
           others  == { v \in Users \ {u} : task[v].pc \in {"answer", "lookup", "send"} }
           chat_id == IF others = {} THEN t.update.chat
                      ELSE task[CHOOSE v \in others : TRUE].update.chat
       IN  task' = [task EXCEPT ![u] =
                       IF ~ok THEN Send(t, send_join_prompt(chat_id, <<>>))
                       ELSE business_start(t, t.update, t.context)]
    /\ UNCHANGED <<env, dropped, phase, config, handlers, flask_started, queue>>

\* start_with_gate with the test of line 116 inverted
start_with_gate_member_inverted(u, status) ==
    /\ task[u].pc = "lookup"
    /\ task[u].handler = "start_with_gate"
    /\ LET ok      == check_membership(status)
           t       == [task[u] EXCEPT !.member = status, !.ok = ok]
           chat_id == t.update.chat
       IN  task' = [task EXCEPT ![u] =
                       IF ok THEN Send(t, send_join_prompt(chat_id, <<>>))
                       ELSE business_start(t, t.update, t.context)]
    /\ UNCHANGED <<env, dropped, phase, config, handlers, flask_started, queue>>

\* start_with_gate without the return of line 118: the prompt, then the business logic
start_with_gate_member_falls_through(u, status) ==
    /\ task[u].pc = "lookup"
    /\ task[u].handler = "start_with_gate"
    /\ LET ok      == check_membership(status)
           t       == [task[u] EXCEPT !.member = status, !.ok = ok]
           chat_id == t.update.chat
       IN  task' = [task EXCEPT ![u] =
                       IF ~ok THEN business_start(Send(t, send_join_prompt(chat_id, <<>>)),
                                                  t.update, t.context)
                       ELSE business_start(t, t.update, t.context)]
    /\ UNCHANGED <<env, dropped, phase, config, handlers, flask_started, queue>>

\* lines 105-120, get_chat_member returned a ChatMember with this status
start_with_gate_member(u, status) ==
    /\ task[u].pc = "lookup"
    /\ task[u].handler = "start_with_gate"
    /\ LET ok      == check_membership(status)
           t       == [task[u] EXCEPT !.member = status, !.ok = ok]
           chat_id == t.update.chat
       IN  task' = [task EXCEPT ![u] =
                       IF ~ok THEN Send(t, send_join_prompt(chat_id, <<>>))
                       ELSE business_start(t, t.update, t.context)]
    /\ UNCHANGED <<env, dropped, phase, config, handlers, flask_started, queue>>

\* lines 105-114, get_chat_member raised e
start_with_gate_raised(u, e) ==
    /\ task[u].pc = "lookup"
    /\ task[u].handler = "start_with_gate"
    /\ LET t       == task[u]
           chat_id == t.update.chat
       IN  task' = [task EXCEPT ![u] =
                       IF e.telegram
                       THEN Send([t EXCEPT !.e = e], send_join_prompt(chat_id, gate_diagnostic(e)))
                       ELSE error_handler(t, e)]
    /\ UNCHANGED <<env, dropped, phase, config, handlers, flask_started, queue>>

(***************************************************************************)
(* main.py:123-147, on_recheck                                             *)
(***************************************************************************)
\* on_recheck that starts the lookup without acknowledging the callback first
on_recheck_lookup_first(u) ==
    /\ Dispatchable(u, "callback_query", "on_recheck")
    /\ Head(queue).data = BTN_RECHECK
    /\ task' = [task EXCEPT ![u] = CallLookup(NewTask("on_recheck", Head(queue)), Head(queue).uid)]
    /\ queue' = Tail(queue)
    /\ UNCHANGED <<env, dropped, phase, config, handlers, flask_started>>

\* lines 127-128: up to the await of q.answer()
on_recheck(u) ==
    /\ Dispatchable(u, "callback_query", "on_recheck")
    /\ Head(queue).data = BTN_RECHECK
    /\ task' = [task EXCEPT ![u] =
                   [NewTask("on_recheck", Head(queue)) EXCEPT !.pc = "answer", !.trace = <<"answer">>]]
    /\ queue' = Tail(queue)
    /\ UNCHANGED <<env, dropped, phase, config, handlers, flask_started>>

\* q.message.chat.id if q.message else None
message_chat_id(update) == [none |-> ~update.has_message, id |-> update.chat]

\* Python truth value of an Optional[int]
truthy(x) == ~x.none /\ x.id # 0

\* on_recheck without the guard of lines 132-133
on_recheck_answered_no_guard(u) ==
    /\ task[u].pc = "answer"
    /\ task' = [task EXCEPT ![u] = CallLookup(task[u], task[u].update.uid)]
    /\ UNCHANGED <<env, dropped, phase, config, handlers, flask_started, queue>>

\* lines 128-136: q.answer() returned; up to the await of get_chat_member
on_recheck_answered(u) ==
    /\ task[u].pc = "answer"
    /\ LET t       == task[u]
           q       == t.update
           uid     == q.uid
           chat_id == message_chat_id(q)
       IN  task' = [task EXCEPT ![u] =
                       IF ~truthy(chat_id) THEN [t EXCEPT !.pc = "done"]
                       ELSE CallLookup(t, uid)]
    /\ UNCHANGED <<env, dropped, phase, config, handlers, flask_started, queue>>

\* line 128: q.answer() raised e
on_recheck_answer_raised(u, e) ==
    /\ task[u].pc = "answer"
    /\ task' = [task EXCEPT ![u] = error_handler(task[u], e)]
    /\ UNCHANGED <<env, dropped, phase, config, handlers, flask_started, queue>>

\* on_recheck that enters the business logic itself once the user has joined
on_recheck_member_invokes(u, status) ==
    /\ task[u].pc = "lookup"
    /\ task[u].handler = "on_recheck"
    /\ LET ok      == check_membership(status)
           t       == [task[u] EXCEPT !.member = status, !.ok = ok]
           chat_id == t.update.chat
       IN  task' = [task EXCEPT ![u] =
                       IF ~ok THEN Send(t, send_join_prompt(chat_id, <<>>))
                       ELSE business_start(t, t.update, t.context)]
    /\ UNCHANGED <<env, dropped, phase, config, handlers, flask_started, queue>>

\* on_recheck without the silent test of line 146
on_recheck_member_always_confirms(u, status) ==
    /\ task[u].pc = "lookup"
    /\ task[u].handler = "on_recheck"
    /\ LET ok      == check_membership(status)
           t       == [task[u] EXCEPT !.member = status, !.ok = ok]
           chat_id == t.update.chat
       IN  task' = [task EXCEPT ![u] =
                       IF ~ok THEN Send(t, send_join_prompt(chat_id, <<>>))
                       ELSE Send(t, << Message("send_message", chat_id, CONFIRMED_TEXT, <<>>) >>)]
    /\ UNCHANGED <<env, dropped, phase, config, handlers, flask_started, queue>>

\* lines 136-147, get_chat_member returned a ChatMember with this status
on_recheck_member(u, status) ==
    /\ task[u].pc = "lookup"
    /\ task[u].handler = "on_recheck"
    /\ LET ok      == check_membership(status)
           t       == [task[u] EXCEPT !.member = status, !.ok = ok]
           chat_id == t.update.chat
       IN  task' = [task EXCEPT ![u] =
                       IF ~ok THEN Send(t, send_join_prompt(chat_id, <<>>))
                       ELSE IF ~SILENT_FOR_NOT_JOINED
                       THEN Send(t, << Message("send_message", chat_id, CONFIRMED_TEXT, <<>>) >>)
                       ELSE [t EXCEPT !.pc = "done"]]
    /\ UNCHANGED <<env, dropped, phase, config, handlers, flask_started, queue>>

\* on_recheck that answers a failed lookup like start_with_gate does: the full prompt
on_recheck_raised_reprompts(u, e) ==
    /\ task[u].pc = "lookup"
    /\ task[u].handler = "on_recheck"
    /\ LET t       == task[u]
           chat_id == t.update.chat
       IN  task' = [task EXCEPT ![u] =
                       IF ~e.telegram THEN error_handler(t, e)
                       ELSE Send([t EXCEPT !.e = e], send_join_prompt(chat_id, recheck_diagnostic(e)))]
    /\ UNCHANGED <<env, dropped, phase, config, handlers, flask_started, queue>>

\* lines 136-140, get_chat_member raised e
on_recheck_raised(u, e) ==
    /\ task[u].pc = "lookup"
    /\ task[u].handler = "on_recheck"
    /\ LET t       == task[u]
           chat_id == t.update.chat
       IN  task' = [task EXCEPT ![u] =
                       IF ~e.telegram THEN error_handler(t, e)
                       ELSE IF ~SILENT_FOR_NOT_JOINED
                       THEN Send([t EXCEPT !.e = e],
                                 << Message("send_message", chat_id, recheck_diagnostic(e), <<>>) >>)
                       ELSE [t EXCEPT !.e = e, !.pc = "done"]]
    /\ UNCHANGED <<env, dropped, phase, config, handlers, flask_started, queue>>

(***************************************************************************)
(* main.py:151-152, handle_any_text                                        *)
(***************************************************************************)
handle_any_text(u) ==
    /\ Dispatchable(u, "text", "handle_any_text")
    /\ task' = [task EXCEPT ![u] = [NewTask("handle_any_text", Head(queue)) EXCEPT !.pc = "done"]]
    /\ queue' = Tail(queue)
    /\ UNCHANGED <<env, dropped, phase, config, handlers, flask_started>>

(***************************************************************************)
(* The awaited bot.send_message / reply_text finishes                      *)
(***************************************************************************)
send_returned(u) ==
    /\ task[u].pc = "send"
    /\ task' = [task EXCEPT ![u].pc = "done"]
    /\ UNCHANGED <<env, dropped, phase, config, handlers, flask_started, queue>>

\* a failed send that nobody catches: the exception ends the process
send_raised_crashes(u, e) ==
    /\ task[u].pc = "send"
    /\ task' = [task EXCEPT ![u] = error_handler(task[u], e)]
    /\ phase' = "crashed"
    /\ UNCHANGED <<env, dropped, config, handlers, flask_started, queue>>

send_raised(u, e) ==
    /\ task[u].pc = "send"
    /\ task' = [task EXCEPT ![u] = error_handler(task[u], e)]
    /\ UNCHANGED <<env, dropped, phase, config, handlers, flask_started, queue>>

(***************************************************************************)
(* Specification                                                           *)
(***************************************************************************)
Next ==
    \/ LoadConfig
    \/ main
    \/ \E u \in Users : UserSends(u)
    \/ \E u \in Users : start_with_gate(u)
    \/ \E u \in Users, status \in Statuses : start_with_gate_member(u, status)
    \/ \E u \in Users, e \in LookupErrors : start_with_gate_raised(u, e)
    \/ \E u \in Users : on_recheck(u)
    \/ \E u \in Users : on_recheck_answered(u)
    \/ \E u \in Users, e \in AnswerErrors : on_recheck_answer_raised(u, e)
    \/ \E u \in Users, status \in Statuses : on_recheck_member(u, status)
    \/ \E u \in Users, e \in LookupErrors : on_recheck_raised(u, e)
    \/ \E u \in Users : handle_any_text(u)
    \/ \E u \in Users : send_returned(u)
    \/ \E u \in Users, e \in SendErrors : send_raised(u, e)

Spec == Init /\ [][Next]_vars

\* One working environment, for the specifications that record history
DefaultEnv ==
    [BOT_TOKEN |-> <<"t", "k">>, REQUIRED_CHAT |-> <<"@", "c", "h">>,
     JOIN_URL |-> Unset, SILENT_FOR_NOT_JOINED |-> Unset]

Tracked == {1}

InitHistory ==
    /\ env = DefaultEnv
    /\ phase = "import"
    /\ BOT_TOKEN = <<>>
    /\ REQUIRED_CHAT_RAW = <<>>
    /\ JOIN_URL = <<>>
    /\ SILENT_FOR_NOT_JOINED = FALSE
    /\ REQUIRED_CHAT = StrObj(<<>>)
    /\ handlers = {}
    /\ flask_started = FALSE
    /\ queue = <<>>
    /\ task = [u \in Users |-> IF u \in Tracked THEN [IdleTask EXCEPT !.before = "none"]
                                ELSE IdleTask]
    /\ dropped = Untracked

\* Spec with the end of user 1's previous interaction recorded
SpecHistory == InitHistory /\ [][Next]_vars

InitBacklog ==
    /\ env = DefaultEnv
    /\ phase = "import"
    /\ BOT_TOKEN = <<>>
    /\ REQUIRED_CHAT_RAW = <<>>
    /\ JOIN_URL = <<>>
    /\ SILENT_FOR_NOT_JOINED = FALSE
    /\ REQUIRED_CHAT = StrObj(<<>>)
    /\ handlers = {}
    /\ flask_started = FALSE
    /\ queue = <<>>
    /\ task = [u \in Users |-> IdleTask]
    /\ dropped = 0

\* Spec with the number of discarded pending updates recorded
SpecBacklog == InitBacklog /\ [][Next]_vars

(***************************************************************************)
(* Vocabulary of the properties                                            *)
(***************************************************************************)
JoinedStatuses == { "member", "administrator", "creator", "restricted" }

Tasks == { task[u] : u \in Users }

GateTasks == { t \in Tasks : t.handler = "start_with_gate" }

RecheckTasks == { t \in Tasks : t.handler = "on_recheck" }

\* the membership lookup of t returned a status / a joined status / another status
Returned(t) == t.member # ""

ReturnedJoined(t) == t.member \in JoinedStatuses

ReturnedNotJoined(t) == Returned(t) /\ t.member \notin JoinedStatuses

\* the membership lookup of t failed with a TelegramError
LookupFailed(t) == t.e # NoError

Msgs(t) == { t.sent[i] : i \in DOMAIN t.sent }

Buttons(m) == { m.reply_markup[i][j] : i \in DOMAIN m.reply_markup, j \in {1} }

HasRecheckButton(m) == \E b \in Buttons(m) : b.callback_data = "recheck_join"

EndsWith(text, suffix) ==
    /\ Len(text) >= Len(suffix)
    /\ SubSeq(text, Len(text) - Len(suffix) + 1, Len(text)) = suffix

Contains(text, part) ==
    \E i \in 1..(Len(text) - Len(part) + 1) : SubSeq(text, i, i + Len(part) - 1) = part

\* the three results of a gate evaluation
InvokedAction(t) == t.calls # <<>>

StandardPrompt(m) == m.via = "send_message" /\ m.text = PROMPT_TEXT

DiagnosticPrompt(m) ==
    m.via = "send_message" /\ m.text # PROMPT_TEXT /\ EndsWith(m.text, PROMPT_TEXT)

Prompt(m) == StandardPrompt(m) \/ DiagnosticPrompt(m)

EmittedPrompt(t) == \E m \in Msgs(t) : StandardPrompt(m)

EmittedDiagnostic(t) == \E m \in Msgs(t) : DiagnosticPrompt(m)

NumResults(t) ==
    (IF InvokedAction(t) THEN 1 ELSE 0) + (IF EmittedPrompt(t) THEN 1 ELSE 0)
      + (IF EmittedDiagnostic(t) THEN 1 ELSE 0)

\* the lookup of t is over (it returned or raised) and the handler went on
Evaluated(t) == t.pc \in {"send", "done"} /\ t.lookups # <<>>

(***************************************************************************)
(* C1: a /start gate evaluation whose lookup returned a joined status      *)
(* invokes business_start exactly once, with the update and the context    *)
(* the gate received, and sends no join prompt.                            *)
(***************************************************************************)
C1_JoinedInvokesActionOnce ==
    \A t \in GateTasks :
        ReturnedJoined(t) =>
            /\ t.calls = << [update |-> t.update, context |-> t.context] >>
            /\ \A m \in Msgs(t) : ~Prompt(m) /\ m.via = "reply_text"

C1_Witness ==
    \E t \in GateTasks :
        t.member = "restricted" /\ t.pc = "done" /\ t.logged = <<>> /\ Len(t.calls) = 1

(***************************************************************************)
(* C2: a /start gate evaluation whose lookup returned a not-joined status, *)
(* with silent mode off, hands exactly one message to the originating      *)
(* chat, that message carries the recheck button (callback tag             *)
(* recheck_join), and business_start is not invoked.                       *)
(***************************************************************************)
C2_NotJoinedPromptsOnce ==
    \A t \in GateTasks :
        (ReturnedNotJoined(t) /\ ~SILENT_FOR_NOT_JOINED) =>
            /\ Len(t.sent) = 1
            /\ Prompt(t.sent[1])
            /\ t.sent[1].chat_id = t.update.chat
            /\ HasRecheckButton(t.sent[1])
            /\ t.calls = <<>>

C2_Witness ==
    /\ ~SILENT_FOR_NOT_JOINED
    /\ JOIN_URL # <<>>
    /\ \E t \in GateTasks : t.member = "left" /\ t.pc = "done" /\ Len(t.sent) = 1

(***************************************************************************)
(* C3 as written: in silent mode no evaluation (gate attempt or recheck)   *)
(* emits any outbound message, whatever the lookup outcome.                *)
(***************************************************************************)
C3_Original_SilentNoMessage ==
    SILENT_FOR_NOT_JOINED => \A t \in GateTasks \cup RecheckTasks : t.sent = <<>>

(***************************************************************************)
(* C3 amended: in silent mode no gate message (prompt, diagnostic or       *)
(* confirmation) is emitted by any evaluation; the only outbound message   *)
(* is the reply of the protected action itself, in a gate attempt whose    *)
(* lookup returned a joined status.                                        *)
(***************************************************************************)
C3_SilentNoGateMessage ==
    SILENT_FOR_NOT_JOINED =>
        /\ \A t \in RecheckTasks : t.sent = <<>>
        /\ \A t \in GateTasks :
              IF ReturnedJoined(t)
              THEN Len(t.sent) = 1 /\ t.sent[1].via = "reply_text" /\ Len(t.calls) = 1
              ELSE t.sent = <<>>

C3_Witness ==
    /\ SILENT_FOR_NOT_JOINED
    /\ \E t \in GateTasks : LookupFailed(t) /\ t.pc = "done" /\ t.sent = <<>>
    /\ \E t \in RecheckTasks : ReturnedJoined(t) /\ t.pc = "done" /\ t.sent = <<>>

(***************************************************************************)
(* C4 as written: every gate evaluation, for every configuration and       *)
(* every lookup outcome, triggers exactly one of: the protected action,    *)
(* the standard prompt, the diagnostic prompt.                             *)
(***************************************************************************)
C4_Original_ExactlyOneResult ==
    \A t \in GateTasks : Evaluated(t) => NumResults(t) = 1

(***************************************************************************)
(* C4 amended: a gate evaluation never triggers two of the three results.  *)
(* With silent mode off it triggers exactly one whenever the lookup        *)
(* returns a status or fails with a TelegramError; with silent mode on it  *)
(* triggers the protected action when the status is joined and none of     *)
(* the three otherwise; it triggers none when the lookup fails with an     *)
(* error that is not a TelegramError.                                      *)
(***************************************************************************)
C4_AtMostOneResult ==
    \A t \in GateTasks :
        Evaluated(t) =>
            /\ NumResults(t) <= 1
            /\ (~SILENT_FOR_NOT_JOINED /\ (Returned(t) \/ LookupFailed(t))) => NumResults(t) = 1
            /\ (SILENT_FOR_NOT_JOINED /\ ReturnedJoined(t)) => InvokedAction(t)
            /\ (SILENT_FOR_NOT_JOINED /\ ~ReturnedJoined(t)) => NumResults(t) = 0
            /\ (~Returned(t) /\ ~LookupFailed(t)) => NumResults(t) = 0
            /\ InvokedAction(t) <=> ReturnedJoined(t)
            /\ EmittedDiagnostic(t) => LookupFailed(t)
            /\ EmittedPrompt(t) => ReturnedNotJoined(t)

C4_Witness ==
    /\ SILENT_FOR_NOT_JOINED
    /\ \E t \in GateTasks : t.member = "kicked" /\ t.pc = "done" /\ NumResults(t) = 0
    /\ \E t \in GateTasks : t.member = "member" /\ t.pc = "done" /\ NumResults(t) = 1

(***************************************************************************)
(* C5: business_start runs only as the last step of a /start gate          *)
(* evaluation whose own lookup succeeded with a joined status: never for   *)
(* a not-joined user, after a failed lookup, from the recheck handler or   *)
(* from the text handler, whatever silent mode is.                         *)
(***************************************************************************)
C5_ActionOnlyAfterPass ==
    \A t \in Tasks :
        /\ InvokedAction(t) =>
              /\ t.handler = "start_with_gate"
              /\ t.member \in JoinedStatuses
              /\ t.e = NoError
              /\ t.lookups = << [chat_id |-> REQUIRED_CHAT, user_id |-> t.update.uid] >>
              /\ t.trace = <<"get_chat_member", "business_start", "reply_text">>
              /\ Len(t.calls) = 1
        /\ (t.handler # "start_with_gate" \/ ~ReturnedJoined(t)) => t.calls = <<>>

C5_Witness ==
    /\ \E t \in GateTasks : InvokedAction(t) /\ t.pc = "done"
    /\ \E t \in RecheckTasks : ReturnedJoined(t) /\ t.pc = "done" /\ t.calls = <<>>

(***************************************************************************)
(* C6: a recheck whose lookup returned a joined status sends exactly one   *)
(* confirmation message when silent mode is off, none when it is on, and   *)
(* does not invoke business_start.                                         *)
(***************************************************************************)
C6_RecheckJoinedConfirms ==
    \A t \in RecheckTasks :
        ReturnedJoined(t) =>
            /\ t.calls = <<>>
            /\ IF SILENT_FOR_NOT_JOINED
               THEN t.sent = <<>>
               ELSE /\ Len(t.sent) = 1
                    /\ t.sent[1].via = "send_message"
                    /\ t.sent[1].text = CONFIRMED_TEXT
                    /\ t.sent[1].chat_id = t.update.chat
                    /\ t.sent[1].reply_markup = <<>>

C6_Witness ==
    /\ ~SILENT_FOR_NOT_JOINED
    /\ \E t \in RecheckTasks :
          t.member = "creator" /\ t.pc = "done" /\ t.logged = <<>> /\ Len(t.sent) = 1

(***************************************************************************)
(* C7 as written: every gate attempt and every recheck that completes has  *)
(* queried get_chat_member exactly once.                                   *)
(***************************************************************************)
C7_Original_ExactlyOneLookup ==
    \A t \in GateTasks \cup RecheckTasks : t.pc = "done" => Len(t.lookups) = 1

\* q.answer() of the recheck t raised
AnswerFailed(t) == t.trace = <<"answer">> /\ t.logged # <<>>

(***************************************************************************)
(* C7 amended: every gate attempt queries get_chat_member exactly once,    *)
(* for its own user and the required chat. A recheck queries it at most    *)
(* once: exactly once when its callback carries an originating message     *)
(* and was acknowledged, not at all when the callback carries no           *)
(* originating message or the acknowledgement failed. No invocation        *)
(* starts with a result of an earlier one.                                 *)
(***************************************************************************)
C7_LookupPerInvocation ==
    /\ \A t \in GateTasks :
          t.lookups = << [chat_id |-> REQUIRED_CHAT, user_id |-> t.update.uid] >>
    /\ \A t \in RecheckTasks :
          /\ Len(t.lookups) <= 1
          /\ \A i \in DOMAIN t.lookups :
                t.lookups[i] = [chat_id |-> REQUIRED_CHAT, user_id |-> t.update.uid]
          /\ (t.pc = "done" /\ t.update.has_message /\ ~AnswerFailed(t)) => Len(t.lookups) = 1
          /\ (~t.update.has_message \/ AnswerFailed(t)) => t.lookups = <<>>
    /\ \A t \in Tasks :
          (t.lookups = <<>> \/ t.pc = "lookup") =>
              t.member = "" /\ ~t.ok /\ t.e = NoError /\ t.sent = <<>> /\ t.calls = <<>>

C7_Witness ==
    /\ \E t \in RecheckTasks :
          t.pc = "done" /\ ~t.update.has_message /\ t.lookups = <<>> /\ t.trace = <<"answer">>
    /\ \E t \in GateTasks : t.pc = "done" /\ Len(t.lookups) = 1

(***************************************************************************)
(* C8: a prompt that is sent has the join button with URL = JOIN_URL when  *)
(* JOIN_URL is set; otherwise with URL https://t.me/<handle> when          *)
(* REQUIRED_CHAT is an @handle; otherwise it has no join button; in all    *)
(* three cases it has the recheck button.                                  *)
(***************************************************************************)
C8_ExpectedJoinUrl ==
    IF JOIN_URL # <<>> THEN JOIN_URL
    ELSE IF REQUIRED_CHAT_RAW # <<>> /\ REQUIRED_CHAT_RAW[1] = "@"
         THEN <<"https://t.me/">> \o SubSeq(REQUIRED_CHAT_RAW, 2, Len(REQUIRED_CHAT_RAW))
         ELSE <<>>

C8_JoinButton ==
    \A t \in Tasks : \A m \in Msgs(t) :
        Prompt(m) =>
            LET join    == { b \in Buttons(m) : b.url # <<>> }
                recheck == { b \in Buttons(m) : b.callback_data = "recheck_join" }
            IN  /\ Cardinality(recheck) = 1
                /\ \A b \in recheck : b.url = <<>>
                /\ IF C8_ExpectedJoinUrl = <<>>
                   THEN join = {} /\ Len(m.reply_markup) = 1
                   ELSE /\ Cardinality(join) = 1
                        /\ \A b \in join : b.url = C8_ExpectedJoinUrl /\ b.callback_data = ""
                        /\ Len(m.reply_markup) = 2

C8_Witness ==
    /\ JOIN_URL # <<>>
    /\ REQUIRED_CHAT_RAW = <<"@", "c", "h">>
    /\ \E t \in Tasks : \E m \in Msgs(t) : Prompt(m) /\ t.pc = "done"

(***************************************************************************)
(* C9: is_joined(status) is true exactly for member, administrator, owner  *)
(* (wire value "creator") and restricted; false for left and kicked; a     *)
(* status outside the known set is classified as not joined without an     *)
(* error.                                                                  *)
(***************************************************************************)
C9_IsJoined ==
    \A t \in Tasks :
        Returned(t) =>
            /\ t.ok <=> t.member \in {"member", "administrator", "creator", "restricted"}
            /\ t.member \in {"left", "kicked"} => ~t.ok
            /\ t.member \notin {"member", "administrator", "creator", "restricted", "left", "kicked"}
                  => ~t.ok /\ \A i \in DOMAIN t.logged : t.logged[i] \in SendErrors

C9_Witness ==
    /\ \E t \in Tasks : t.member = "unknown_future_status" /\ ~t.ok /\ t.pc = "done" /\ t.logged = <<>>
    /\ \E t \in Tasks : t.member = "restricted" /\ t.ok

(***************************************************************************)
(* C10: when the lookup of a gate attempt fails with a TelegramError and   *)
(* silent mode is off, the handler goes on normally, does not invoke       *)
(* business_start, and hands over exactly one prompt: the diagnostic       *)
(* (with the raw REQUIRED_CHAT string, the error's type name and its       *)
(* message) prepended to the unchanged standard body, with the recheck     *)
(* button.                                                                 *)
(***************************************************************************)
C10_LookupErrorDiagnostic ==
    \A t \in GateTasks :
        (LookupFailed(t) /\ ~SILENT_FOR_NOT_JOINED) =>
            /\ t.calls = <<>>
            /\ t.e \notin { t.logged[i] : i \in DOMAIN t.logged }
            /\ Len(t.sent) = 1
            /\ LET m    == t.sent[1]
                   diag == SubSeq(m.text, 1, Len(m.text) - Len(PROMPT_TEXT) - 1)
               IN  /\ m.via = "send_message"
                   /\ m.chat_id = t.update.chat
                   /\ EndsWith(m.text, <<"\n\n">> \o PROMPT_TEXT)
                   /\ Contains(diag, <<"REQUIRED_CHAT=">> \o REQUIRED_CHAT_RAW)
                   /\ Contains(diag, <<t.e.cls, ": ">> \o t.e.msg)
                   /\ HasRecheckButton(m)

C10_Witness ==
    /\ ~SILENT_FOR_NOT_JOINED
    /\ REQUIRED_CHAT_RAW = <<"-", "1", "0", "0">>
    /\ \E t \in GateTasks :
          t.e = ChatNotFound /\ t.pc = "done" /\ t.logged = <<>> /\ Len(t.sent) = 1

(***************************************************************************)
(* C11: when BOT_TOKEN or REQUIRED_CHAT is missing or empty (whitespace    *)
(* only included), the process fails at startup before any handler is      *)
(* registered, before the health listener is started and before any        *)
(* update is processed.                                                    *)
(***************************************************************************)
Blank(v) == v = Unset \/ \A i \in DOMAIN v : v[i] = " "

C11_MissingConfigFailsFast ==
    (Blank(env.BOT_TOKEN) \/ Blank(env.REQUIRED_CHAT)) =>
        /\ phase \in {"import", "crashed"}
        /\ handlers = {}
        /\ ~flask_started
        /\ \A u \in Users : task[u].pc = "idle" /\ task[u].trace = <<>>

C11_Witness ==
    /\ env.REQUIRED_CHAT = <<" ">>
    /\ ~Blank(env.BOT_TOKEN)
    /\ phase = "crashed"
    /\ queue # <<>>

(***************************************************************************)
(* C12: in every recheck the callback is acknowledged (q.answer) first,    *)
(* then the membership lookup is made, then any response message is sent,  *)
(* strictly in that order; the acknowledgement is made in every recheck,   *)
(* whether the lookup then succeeds, fails or is skipped.                  *)
(***************************************************************************)
IsPrefix(a, b) == Len(a) <= Len(b) /\ a = SubSeq(b, 1, Len(a))

C12_AckLookupRespond ==
    \A t \in RecheckTasks :
        /\ t.trace # <<>>
        /\ t.trace[1] = "answer"
        /\ IsPrefix(t.trace, <<"answer", "get_chat_member", "send_message">>)
        /\ Len(t.lookups) = Cardinality({ i \in DOMAIN t.trace : t.trace[i] = "get_chat_member" })
        /\ Len(t.sent) = Cardinality({ i \in DOMAIN t.trace : t.trace[i] = "send_message" })
        /\ t.pc = "answer" => t.trace = <<"answer">>

C12_Witness ==
    /\ \E t \in RecheckTasks :
          /\ t.trace = <<"answer", "get_chat_member", "send_message">>
          /\ LookupFailed(t) /\ t.pc = "done"
    /\ \E t \in RecheckTasks : t.trace = <<"answer">> /\ ~t.update.has_message /\ t.pc = "done"

(***************************************************************************)
(* C13: when the lookup of a recheck fails with a TelegramError,           *)
(* on_recheck sends, if not silent, exactly one short diagnostic message   *)
(* (error type name and message) without the standard prompt body and      *)
(* without buttons; it sends nothing if silent; it does not invoke         *)
(* business_start; the lookup error does not leave the handler.            *)
(***************************************************************************)
C13_RecheckLookupError ==
    \A t \in RecheckTasks :
        LookupFailed(t) =>
            /\ t.calls = <<>>
            /\ t.e \notin { t.logged[i] : i \in DOMAIN t.logged }
            /\ IF SILENT_FOR_NOT_JOINED
               THEN t.sent = <<>> /\ t.pc = "done" /\ t.logged = <<>>
               ELSE /\ Len(t.sent) = 1
                    /\ t.sent[1].via = "send_message"
                    /\ t.sent[1].chat_id = t.update.chat
                    /\ Contains(t.sent[1].text, <<t.e.cls, ": ">> \o t.e.msg)
                    /\ ~Contains(t.sent[1].text, PROMPT_TEXT)
                    /\ Len(t.sent[1].text) = 3 + Len(t.e.msg)
                    /\ t.sent[1].reply_markup = <<>>

C13_Witness ==
    /\ ~SILENT_FOR_NOT_JOINED
    /\ \E t \in RecheckTasks :
          t.e = NotMember /\ t.pc = "done" /\ t.logged = <<>> /\ Len(t.sent) = 1

(***************************************************************************)
(* C18: a recheck whose callback carries no originating message is         *)
(* acknowledged and then ends: no membership lookup, no message, no        *)
(* business_start.                                                         *)
(***************************************************************************)
C18_RecheckWithoutMessage ==
    \A t \in RecheckTasks :
        ~t.update.has_message =>
            /\ t.trace = <<"answer">>
            /\ t.pc \in {"answer", "done"}
            /\ t.lookups = <<>>
            /\ t.sent = <<>>
            /\ t.calls = <<>>
            /\ t.member = "" /\ t.e = NoError

C18_Witness ==
    \E t \in RecheckTasks :
        ~t.update.has_message /\ t.pc = "done" /\ t.logged = <<>> /\ t.trace = <<"answer">>

(***************************************************************************)
(* C19: for every non-empty REQUIRED_CHAT value, configuration loading     *)
(* completes without error and yields an integer chat id when the value    *)
(* is a decimal number with an optional leading minus sign, and the        *)
(* unchanged string otherwise ("-", "--5", "@name" included).              *)
(***************************************************************************)
C19_Decimal(s) ==
    LET body == IF s # <<>> /\ s[1] = "-" THEN SubSeq(s, 2, Len(s)) ELSE s
    IN  body # <<>> /\ \A i \in DOMAIN body : body[i] \in {"0", "1", "5"}

C19_Strip(v) ==
    IF v = Unset THEN <<>>
    ELSE LET keep == { i \in DOMAIN v : v[i] # " " }
         IN  IF keep = {} THEN <<>>
             ELSE SubSeq(v, CHOOSE i \in keep : \A j \in keep : i <= j,
                            CHOOSE i \in keep : \A j \in keep : i >= j)

C19_RequiredChatLoads ==
    (phase # "import" /\ ~Blank(env.BOT_TOKEN) /\ ~Blank(env.REQUIRED_CHAT)) =>
        /\ phase # "crashed"
        /\ REQUIRED_CHAT.type = (IF C19_Decimal(C19_Strip(env.REQUIRED_CHAT)) THEN "int" ELSE "str")
        /\ REQUIRED_CHAT.type = "str" => REQUIRED_CHAT.str = C19_Strip(env.REQUIRED_CHAT)

(***************************************************************************)
(* Vocabulary of the properties about sequences of interactions            *)
(***************************************************************************)
\* the gate blocked t: the standard prompt, no protected action
Blocked_(t) ==
    /\ t.calls = <<>>
    /\ Len(t.sent) = 1
    /\ StandardPrompt(t.sent[1])
    /\ HasRecheckButton(t.sent[1])
    /\ t.sent[1].chat_id = t.update.chat

Passed_(t) == Len(t.calls) = 1 /\ Len(t.sent) = 1 /\ t.sent[1].via = "reply_text"

Confirmed_(t) ==
    t.calls = <<>> /\ Len(t.sent) = 1 /\ t.sent[1].text = CONFIRMED_TEXT

\* what t did is what its own lookup result prescribes (silent mode off)
ByLookupAlone(t) ==
    /\ (t.handler = "start_with_gate" /\ ReturnedNotJoined(t)) => Blocked_(t)
    /\ (t.handler = "start_with_gate" /\ ReturnedJoined(t)) => Passed_(t)
    /\ (t.handler = "on_recheck" /\ ReturnedNotJoined(t)) => Blocked_(t)
    /\ (t.handler = "on_recheck" /\ ReturnedJoined(t)) => Confirmed_(t)

Endings == {"none", "failed", "passed", "quiet", "confirmed", "prompted", "diagnosed"}

(***************************************************************************)
(* C14: the per-user gate has no memory. Whatever way the user's previous  *)
(* interaction ended (never interacted, prompted, confirmed, passed,       *)
(* failed, ...): a recheck while not joined gets the standard prompt       *)
(* again, a recheck while joined gets the confirmation, a /start while     *)
(* joined reaches the protected action, and a /start while not joined is   *)
(* blocked again.                                                          *)
(***************************************************************************)
C14_NoMemory ==
    \A b \in Endings : \A t \in Tasks :
        t.before = b => ~SILENT_FOR_NOT_JOINED /\ ByLookupAlone(t)

C14_Witness ==
    \E t \in GateTasks :
        t.before = "passed" /\ t.member = "left" /\ t.pc = "done" /\ Blocked_(t)

(***************************************************************************)
(* C15: under any interleaving of the handlers of different users at       *)
(* their awaits, a step of one user's handler changes nothing but that     *)
(* user's own invocation (no configuration, no other user's invocation);   *)
(* every lookup is for the invocation's own user and every message goes    *)
(* to its own chat; and two invocations of the same handler with the same  *)
(* lookup result produce the same result.                                  *)
(***************************************************************************)
C15_Result(t) ==
    [calls |-> Len(t.calls),
     sent  |-> [i \in DOMAIN t.sent |->
                  [via |-> t.sent[i].via, text |-> t.sent[i].text,
                   reply_markup |-> t.sent[i].reply_markup]]]

C15_Own(t) ==
    /\ \A m \in Msgs(t) : m.chat_id = t.update.chat
    /\ \A i \in DOMAIN t.lookups : t.lookups[i].user_id = t.update.uid
    /\ \A i \in DOMAIN t.calls : t.calls[i].update = t.update /\ t.calls[i].context.user = t.update.uid

C15_Inv ==
    /\ \A t \in Tasks : C15_Own(t)
    /\ \A t1, t2 \in Tasks :
          ( /\ t1.handler = t2.handler
            /\ t1.update.has_message = t2.update.has_message
            /\ Evaluated(t1) /\ Evaluated(t2)
            /\ t1.member = t2.member /\ t1.e = t2.e )
          => C15_Result(t1) = C15_Result(t2)

C15_Step ==
    \A u \in Users :
        task'[u] # task[u] =>
            /\ \A v \in Users \ {u} : task'[v] = task[v]
            /\ UNCHANGED <<env, config, phase, handlers, flask_started>>

C15_Isolation == []C15_Inv /\ [][C15_Step]_vars

C15_Witness ==
    /\ task[1].handler = "start_with_gate" /\ task[1].pc = "send" /\ ReturnedNotJoined(task[1])
    /\ task[2].handler = "on_recheck" /\ task[2].pc = "send" /\ ReturnedJoined(task[2])
    /\ task[1].sent[1].chat_id = 1
    /\ task[2].sent[1].chat_id = 0 - 100

(***************************************************************************)
(* C16: a failure that leaves a handler (a failed send, a failed           *)
(* acknowledgement, a lookup failure that is not a TelegramError) is       *)
(* logged by error_handler; the process keeps polling; the failed          *)
(* interaction does nothing more (no protected action afterwards); and     *)
(* the next interaction is handled as its own lookup result prescribes.    *)
(***************************************************************************)
C16_Inv ==
    \A t \in Tasks :
        /\ t.logged # <<>> =>
              /\ t.pc = "done"
              /\ Len(t.logged) = 1
              /\ phase = "polling"
              /\ "error_handler" \in handlers
              /\ \/ t.logged[1] \in SendErrors /\ t.trace[Len(t.trace)] \in {"send_message", "reply_text"}
                 \/ t.logged[1] \in AnswerErrors /\ t.trace = <<"answer">> /\ t.calls = <<>>
                 \/ ~t.logged[1].telegram /\ t.sent = <<>> /\ t.calls = <<>>
        /\ t.before = "failed" => ByLookupAlone(t)

C16_Step ==
    /\ phase = "polling" => phase' = "polling"
    /\ \A u \in Users :
          (task[u].logged # <<>> /\ task'[u] # task[u]) =>
              /\ task'[u].logged = <<>> /\ task'[u].calls = <<>> /\ task'[u].sent = <<>>
              /\ task'[u].before \in {"failed", "untracked"}
              /\ queue' = Tail(queue)

C16_ErrorsAreContained == []C16_Inv /\ [][C16_Step]_vars

C16_Witness ==
    \E t \in GateTasks :
        t.before = "failed" /\ t.member = "member" /\ t.pc = "done" /\ t.logged = <<>> /\ Passed_(t)

(***************************************************************************)
(* C17: the updates that were pending when polling starts are discarded:   *)
(* none of them is ever handed to a handler. An update that arrives once   *)
(* polling has started leaves the queue only by being handed to its        *)
(* handler, which is possible as soon as its user's previous handler is    *)
(* over.                                                                   *)
(***************************************************************************)
C17_HandlerFor(update) ==
    CASE update.kind = "command" -> "start_with_gate"
      [] update.kind = "callback_query" -> "on_recheck"
      [] OTHER -> "handle_any_text"

C17_Dispatch ==
    \E u \in Users : start_with_gate(u) \/ on_recheck(u) \/ handle_any_text(u)

C17_Inv ==
    /\ \A t \in Tasks : ~t.update.pending
    /\ phase = "polling" => \A i \in DOMAIN queue : ~queue[i].pending
    /\ (phase = "polling" /\ queue # <<>> /\ task[Head(queue).uid].pc \in {"idle", "done"})
          => ENABLED C17_Dispatch

C17_Step ==
    /\ (phase # "polling" /\ phase' = "polling") =>
          queue' = <<>> /\ dropped' = dropped + Len(queue)
    /\ (phase = "polling" /\ queue' # queue /\ Len(queue') <= Len(queue)) =>
          /\ queue' = Tail(queue)
          /\ task'[Head(queue).uid].update = Head(queue)
          /\ task'[Head(queue).uid].handler = C17_HandlerFor(Head(queue))
          /\ task'[Head(queue).uid].pc # "idle"

C17_BacklogDropped == []C17_Inv /\ [][C17_Step]_vars

C17_Witness ==
    /\ dropped > 0
    /\ phase = "polling"
    /\ \E t \in GateTasks : t.pc = "done" /\ ~t.update.pending /\ t.lookups # <<>>

====
